---- MODULE Spec2Model ----
(***************************************************************************)
(* Model of droprate/server src/buffer.rs: StaticBuffer<T>, a buffer of    *)
(* BUFFER_SIZE slots with a cursor `next`; elements are added one at a     *)
(* time and consumed all at once.                                          *)
(*                                                                         *)
(* The source fixes BUFFER_SIZE at 512 (buffer.rs:29).  The model keeps    *)
(* the name and scales the value down so that every fill level, the full   *)
(* buffer and every content of the stale slots are enumerated.             *)
(***************************************************************************)
EXTENDS Integers, Sequences, FiniteSets, TLC

\* ---- sizes of the model -------------------------------------------------
BUFFER_SIZE == 3       \* buffer.rs:29 (512 in the source, scaled down)
MaxVal == 1            \* elements of T are drawn from 0..MaxVal
MaxExtraAdds == 2      \* add calls explored beyond BUFFER_SIZE per fill cycle
MaxCalls == 10         \* length of the call log kept by the logged runs

Vals == 0..MaxVal
Default == 0           \* Default::default() of the numeric element types
NoElem == -1           \* "no element" marker in a result record
NoVal == -1            \* "no integer" marker in a result record

VARIABLES
    elements,      \* StaticBuffer.elements : [T; BUFFER_SIZE], indexed from 0
    next,          \* StaticBuffer.next
    result,        \* what the last call on the buffer returned
    pre,           \* the buffer, `accepted` and the argument at the last call
    accepted,      \* ghost: elements accepted by add since the previous consume
    addCalls,      \* ghost: add calls (Ok or Err) since the previous consume
    consumeRun,    \* ghost: consume calls since the last add call, capped at 2
    runFirst,      \* ghost: outcome of the first consume of that run
    drained,       \* ghost: some consume call has been made
    other,         \* a second StaticBuffer, [elements, next]
    result2,       \* what the last call on the second buffer returned
    paired,        \* the last step made the same call on both buffers
    log,           \* ghost: the add and consume calls made, [arg, res], in order
    held,          \* the Vecs handed out by consume, [data, storage], in order
    pc,            \* position of main
    buf            \* the StaticBuffer of main, [elements, next]

vars == <<elements, next, result, pre, accepted, addCalls, consumeRun,
          runFirst, drained, other, result2, paired, log, held, pc, buf>>

histvars == <<log, held, pc, buf>>

\* ---- results of calls ----------------------------------------------------
\* One record shape for every call: op names the method, kind the outcome
\* (Ok / Err of add, Some / None of consume, "val" of the observers, "panic"
\* for an out-of-range index or slice), elem the element carried by
\* BufferFullError, data the Vec of Some, val the usize of used/capacity.
Res(op, kind, elem, data, val) ==
    [op |-> op, kind |-> kind, elem |-> elem, data |-> data, val |-> val]

NoCall == Res("none", "none", NoElem, <<>>, NoVal)

\* Outcome of a &mut self method: the buffer afterwards and the return value.
Out(els, nxt, res) == [elements |-> els, next |-> nxt, res |-> res]

\* ---- StaticBuffer::new ---------------------------------------------------
new == [elements |-> [i \in 0..(BUFFER_SIZE - 1) |-> Default], next |-> 0]

\* ---- StaticBuffer::add ---------------------------------------------------
add_offbyone(els, nxt, element) ==
    IF nxt = BUFFER_SIZE - 1
    THEN Out(els, nxt, Res("add", "Err", element, <<>>, NoVal))
    ELSE IF nxt \notin DOMAIN els
    THEN Out(els, nxt, Res("add", "panic", NoElem, <<>>, NoVal))
    ELSE Out([els EXCEPT ![nxt] = element], nxt + 1,
             Res("add", "Ok", NoElem, <<>>, NoVal))

add_nocheck(els, nxt, element) ==
    IF nxt > BUFFER_SIZE
    THEN Out(els, nxt, Res("add", "Err", element, <<>>, NoVal))
    ELSE IF nxt \notin DOMAIN els
    THEN Out(els, nxt, Res("add", "panic", NoElem, <<>>, NoVal))
    ELSE Out([els EXCEPT ![nxt] = element], nxt + 1,
             Res("add", "Ok", NoElem, <<>>, NoVal))

add_dropelement(els, nxt, element) ==
    IF nxt = BUFFER_SIZE
    THEN Out(els, nxt, Res("add", "Err", Default, <<>>, NoVal))
    ELSE IF nxt \notin DOMAIN els
    THEN Out(els, nxt, Res("add", "panic", NoElem, <<>>, NoVal))
    ELSE Out([els EXCEPT ![nxt] = element], nxt + 1,
             Res("add", "Ok", NoElem, <<>>, NoVal))

add_wrongslot(els, nxt, element) ==
    IF nxt = BUFFER_SIZE
    THEN Out(els, nxt, Res("add", "Err", element, <<>>, NoVal))
    ELSE IF nxt \notin DOMAIN els
    THEN Out(els, nxt, Res("add", "panic", NoElem, <<>>, NoVal))
    ELSE Out([els EXCEPT ![0] = element], nxt + 1,
             Res("add", "Ok", NoElem, <<>>, NoVal))

add_inverted(els, nxt, element) ==
    IF nxt # BUFFER_SIZE
    THEN Out(els, nxt, Res("add", "Err", element, <<>>, NoVal))
    ELSE IF nxt \notin DOMAIN els
    THEN Out(els, nxt, Res("add", "panic", NoElem, <<>>, NoVal))
    ELSE Out([els EXCEPT ![nxt] = element], nxt + 1,
             Res("add", "Ok", NoElem, <<>>, NoVal))

add_alsofirst(els, nxt, element) ==
    IF nxt = BUFFER_SIZE
    THEN Out(els, nxt, Res("add", "Err", element, <<>>, NoVal))
    ELSE IF nxt \notin DOMAIN els
    THEN Out(els, nxt, Res("add", "panic", NoElem, <<>>, NoVal))
    ELSE Out([els EXCEPT ![0] = element, ![nxt] = element], nxt + 1,
             Res("add", "Ok", NoElem, <<>>, NoVal))

add_fulloverwrite(els, nxt, element) ==
    IF nxt = BUFFER_SIZE
    THEN Out([els EXCEPT ![nxt - 1] = element], nxt,
             Res("add", "Err", element, <<>>, NoVal))
    ELSE IF nxt \notin DOMAIN els
    THEN Out(els, nxt, Res("add", "panic", NoElem, <<>>, NoVal))
    ELSE Out([els EXCEPT ![nxt] = element], nxt + 1,
             Res("add", "Ok", NoElem, <<>>, NoVal))

add(els, nxt, element) ==
    IF nxt = BUFFER_SIZE
    THEN Out(els, nxt, Res("add", "Err", element, <<>>, NoVal))
    ELSE IF nxt \notin DOMAIN els          \* self.elements[self.next] panics
    THEN Out(els, nxt, Res("add", "panic", NoElem, <<>>, NoVal))
    ELSE Out([els EXCEPT ![nxt] = element], nxt + 1,
             Res("add", "Ok", NoElem, <<>>, NoVal))

\* ---- StaticBuffer::consume -----------------------------------------------
\* vec![Default::default(); n]
VecDefault(n) == [i \in 1..n |-> Default]

\* &self.elements[..n]; the bound check is made by the caller below
Slice(els, n) == [i \in 1..n |-> els[i - 1]]

\* data.copy_from_slice(src), for slices of equal length
CopyFromSlice(data, src) == [i \in 1..Len(data) |-> src[i]]

consume_noreset(els, nxt) ==
    IF nxt = 0
    THEN Out(els, nxt, Res("consume", "None", NoElem, <<>>, NoVal))
    ELSE IF nxt > BUFFER_SIZE
    THEN Out(els, nxt, Res("consume", "panic", NoElem, <<>>, NoVal))
    ELSE LET data == VecDefault(nxt)
             src == Slice(els, nxt)
         IN  IF Len(data) # Len(src)
             THEN Out(els, nxt, Res("consume", "panic", NoElem, <<>>, NoVal))
             ELSE Out(els, nxt,
                      Res("consume", "Some", NoElem, CopyFromSlice(data, src), NoVal))

consume_nocopy(els, nxt) ==
    IF nxt = 0
    THEN Out(els, nxt, Res("consume", "None", NoElem, <<>>, NoVal))
    ELSE IF nxt > BUFFER_SIZE
    THEN Out(els, nxt, Res("consume", "panic", NoElem, <<>>, NoVal))
    ELSE LET data == VecDefault(nxt)
         IN  Out(els, 0, Res("consume", "Some", NoElem, data, NoVal))

consume_noemptycheck(els, nxt) ==
    IF nxt > BUFFER_SIZE
    THEN Out(els, nxt, Res("consume", "panic", NoElem, <<>>, NoVal))
    ELSE LET data == VecDefault(nxt)
             src == Slice(els, nxt)
         IN  IF Len(data) # Len(src)
             THEN Out(els, nxt, Res("consume", "panic", NoElem, <<>>, NoVal))
             ELSE Out(els, 0,
                      Res("consume", "Some", NoElem, CopyFromSlice(data, src), NoVal))

consume_wholearray(els, nxt) ==
    IF nxt = 0
    THEN Out(els, nxt, Res("consume", "None", NoElem, <<>>, NoVal))
    ELSE LET data == VecDefault(BUFFER_SIZE)
             src == Slice(els, BUFFER_SIZE)
         IN  Out(els, 0,
                 Res("consume", "Some", NoElem, CopyFromSlice(data, src), NoVal))

consume_keepsdata(els, nxt) ==
    IF nxt = 0
    THEN Out(els, nxt, Res("consume", "None", NoElem, <<>>, NoVal))
    ELSE IF nxt > BUFFER_SIZE
    THEN Out(els, nxt, Res("consume", "panic", NoElem, <<>>, NoVal))
    ELSE LET data == VecDefault(nxt)
             src == Slice(els, nxt)
         IN  Out(els, nxt - 1,
                 Res("consume", "Some", NoElem, CopyFromSlice(data, src), NoVal))

consume_zeroes(els, nxt) ==
    IF nxt = 0
    THEN Out(els, nxt, Res("consume", "None", NoElem, <<>>, NoVal))
    ELSE IF nxt > BUFFER_SIZE
    THEN Out(els, nxt, Res("consume", "panic", NoElem, <<>>, NoVal))
    ELSE LET data == VecDefault(nxt)
             src == Slice(els, nxt)
         IN  Out([i \in DOMAIN els |-> Default], 0,
                 Res("consume", "Some", NoElem, CopyFromSlice(data, src), NoVal))

consume(els, nxt) ==
    IF nxt = 0
    THEN Out(els, nxt, Res("consume", "None", NoElem, <<>>, NoVal))
    ELSE IF nxt > BUFFER_SIZE              \* &self.elements[..self.next] panics
    THEN Out(els, nxt, Res("consume", "panic", NoElem, <<>>, NoVal))
    ELSE LET data == VecDefault(nxt)
             src == Slice(els, nxt)
         IN  IF Len(data) # Len(src)       \* copy_from_slice panics
             THEN Out(els, nxt, Res("consume", "panic", NoElem, <<>>, NoVal))
             ELSE Out(els, 0,
                      Res("consume", "Some", NoElem, CopyFromSlice(data, src), NoVal))

\* ---- StaticBuffer::used, StaticBuffer::capacity --------------------------
used_capacity(els, nxt) == BUFFER_SIZE

used(els, nxt) == nxt

capacity(els, nxt) == BUFFER_SIZE

\* A call of an observer: &self, so the buffer afterwards is the buffer before.
used_call_resets(els, nxt) ==
    Out(els, 0, Res("used", "val", NoElem, <<>>, used(els, nxt)))

used_call(els, nxt) ==
    Out(els, nxt, Res("used", "val", NoElem, <<>>, used(els, nxt)))

capacity_call(els, nxt) ==
    Out(els, nxt, Res("capacity", "val", NoElem, <<>>, capacity(els, nxt)))

\* Where the Vec returned by consume keeps its elements: vec! allocates
\* storage of its own ("vec"), as opposed to a view of self.elements.
vec_storage_view(els, nxt) == "elements"

vec_storage(els, nxt) == "vec"

\* ---- the state machine -------------------------------------------------
Snapshot(arg) ==
    [elements |-> elements, next |-> next, accepted |-> accepted, arg |-> arg]

Min(a, b) == IF a < b THEN a ELSE b

\* A panic unwinds the caller: no call follows it.
Running == result.kind # "panic" /\ result2.kind # "panic"

\* Two buffers that agree on next and on the slots [0, next).
LowEq(a, b) ==
    /\ a.next = b.next
    /\ \A i \in 0..(a.next - 1) : a.elements[i] = b.elements[i]

Buffer == [elements |-> elements, next |-> next]

\* k calls of add(element) in a row on the buffer b.
RECURSIVE AddTimes(_, _, _)
AddTimes(b, k, element) ==
    IF k = 0 THEN b
    ELSE LET o == add(b.elements, b.next, element)
         IN  AddTimes([elements |-> o.elements, next |-> o.next], k - 1, element)

Init ==
    /\ elements = new.elements
    /\ next = new.next
    /\ result = NoCall
    /\ pre = [elements |-> new.elements, next |-> new.next,
              accepted |-> <<>>, arg |-> NoElem]
    /\ accepted = <<>>
    /\ addCalls = 0
    /\ consumeRun = 0
    /\ runFirst = "none"
    /\ drained = FALSE
    /\ other = new
    /\ result2 = NoCall
    /\ paired = FALSE
    /\ log = <<>>
    /\ held = <<>>
    /\ pc = "new"
    /\ buf = new

\* buffer.add(element), with the bookkeeping of the ghosts
AddMain(element) ==
    /\ Running
    /\ addCalls < BUFFER_SIZE + MaxExtraAdds
    /\ LET o == add(elements, next, element)
       IN  /\ elements' = o.elements
           /\ next' = o.next
           /\ result' = o.res
           /\ accepted' = IF o.res.kind = "Ok" THEN Append(accepted, element)
                          ELSE accepted
    /\ pre' = Snapshot(element)
    /\ addCalls' = addCalls + 1
    /\ consumeRun' = 0
    /\ runFirst' = "none"
    /\ UNCHANGED drained

\* buffer.consume(), with the bookkeeping of the ghosts
ConsumeMain ==
    /\ Running
    /\ LET o == consume(elements, next)
       IN  /\ elements' = o.elements
           /\ next' = o.next
           /\ result' = o.res
           /\ runFirst' = IF consumeRun = 0 THEN o.res.kind ELSE runFirst
    /\ pre' = Snapshot(NoElem)
    /\ accepted' = <<>>
    /\ addCalls' = 0
    /\ consumeRun' = Min(consumeRun + 1, 2)
    /\ drained' = TRUE

\* other.add(element)
AddOther(element) ==
    LET o == add(other.elements, other.next, element)
    IN  /\ other' = [elements |-> o.elements, next |-> o.next]
        /\ result2' = o.res

\* other.consume()
ConsumeOther ==
    LET o == consume(other.elements, other.next)
    IN  /\ other' = [elements |-> o.elements, next |-> o.next]
        /\ result2' = o.res

\* A call on the first buffer alone.
Add(element) ==
    /\ AddMain(element)
    /\ paired' = FALSE
    /\ UNCHANGED histvars
    /\ UNCHANGED <<other, result2>>

Consume ==
    /\ ConsumeMain
    /\ paired' = FALSE
    /\ UNCHANGED histvars
    /\ UNCHANGED <<other, result2>>

Used ==
    /\ Running
    /\ LET o == used_call(elements, next)
       IN  /\ elements' = o.elements
           /\ next' = o.next
           /\ result' = o.res
    /\ pre' = Snapshot(NoElem)
    /\ paired' = FALSE
    /\ UNCHANGED histvars
    /\ UNCHANGED <<accepted, addCalls, consumeRun, runFirst,
                   drained, other, result2>>

Capacity ==
    /\ Running
    /\ LET o == capacity_call(elements, next)
       IN  /\ elements' = o.elements
           /\ next' = o.next
           /\ result' = o.res
    /\ pre' = Snapshot(NoElem)
    /\ paired' = FALSE
    /\ UNCHANGED histvars
    /\ UNCHANGED <<accepted, addCalls, consumeRun, runFirst,
                   drained, other, result2>>

\* A call on the second buffer alone: its stale slots drift from the first's.
SoloAdd(element) ==
    /\ Running
    /\ AddOther(element)
    /\ paired' = FALSE
    /\ UNCHANGED histvars
    /\ UNCHANGED <<elements, next, result, pre, accepted, addCalls,
                   consumeRun, runFirst, drained>>

SoloConsume ==
    /\ Running
    /\ ConsumeOther
    /\ paired' = FALSE
    /\ UNCHANGED histvars
    /\ UNCHANGED <<elements, next, result, pre, accepted, addCalls,
                   consumeRun, runFirst, drained>>

\* The same call on both buffers, made when they agree on next and [0, next).
BothAdd(element) ==
    /\ LowEq(Buffer, other)
    /\ AddMain(element)
    /\ AddOther(element)
    /\ paired' = TRUE
    /\ UNCHANGED histvars

BothConsume ==
    /\ LowEq(Buffer, other)
    /\ ConsumeMain
    /\ ConsumeOther
    /\ paired' = TRUE
    /\ UNCHANGED histvars

Next ==
    \/ \E element \in Vals : Add(element)
    \/ Consume
    \/ Used
    \/ Capacity
    \/ \E element \in Vals : SoloAdd(element)
    \/ SoloConsume
    \/ \E element \in Vals : BothAdd(element)
    \/ BothConsume

Spec == Init /\ [][Next]_vars

\* ---- logged runs: one buffer with its call log, and main ------------------
\* Elements of the logged runs are distinct per call (the number of the call,
\* as the tests add 0, 1, 2, ...), or an element that an earlier add rejected.
Rejected == {log[i].arg : i \in {j \in 1..Len(log) : log[j].res.kind = "Err"}}

HistArgs == {Len(log) + 1} \cup Rejected

\* A Vec handed to the caller, and what the caller reads in it now.
Vec(data, storage) == [data |-> data, storage |-> storage]

View(v) ==
    IF v.storage = "vec" THEN v.data
    ELSE [i \in 1..Len(v.data) |-> elements[i - 1]]

\* What the log says: the elements of all consume results so far, in order,
\* the sequences consume returned, and the elements add accepted.
RECURSIVE Returned(_)
Returned(n) ==
    IF n = 0 THEN <<>>
    ELSE Returned(n - 1) \o
         (IF log[n].res.op = "consume" THEN log[n].res.data ELSE <<>>)

RECURSIVE ReturnedSeqs(_)
ReturnedSeqs(n) ==
    IF n = 0 THEN <<>>
    ELSE IF log[n].res.kind = "Some"
         THEN Append(ReturnedSeqs(n - 1), log[n].res.data)
         ELSE ReturnedSeqs(n - 1)

RECURSIVE AcceptedAll(_)
AcceptedAll(n) ==
    IF n = 0 THEN <<>>
    ELSE IF log[n].res.kind = "Ok"
         THEN Append(AcceptedAll(n - 1), log[n].arg)
         ELSE AcceptedAll(n - 1)

Range(f) == {f[i] : i \in DOMAIN f}

HistAdd(element) ==
    /\ Len(log) < MaxCalls
    /\ AddMain(element)
    /\ log' = Append(log, [arg |-> element, res |-> result'])
    /\ paired' = FALSE
    /\ UNCHANGED <<other, result2, held, pc, buf>>

HistConsume ==
    /\ Len(log) < MaxCalls
    /\ ConsumeMain
    /\ log' = Append(log, [arg |-> NoElem, res |-> result'])
    /\ held' = IF result'.kind = "Some"
               THEN Append(held, Vec(result'.data, vec_storage(elements, next)))
               ELSE held
    /\ paired' = FALSE
    /\ UNCHANGED <<other, result2, pc, buf>>

\* main: buf.add(1).unwrap()
MainAdd ==
    /\ pc = "new"
    /\ LET o == add(buf.elements, buf.next, 1)
       IN  /\ buf' = [elements |-> o.elements, next |-> o.next]
           /\ pc' = IF o.res.kind = "Ok" THEN "added" ELSE "panicked"
    /\ UNCHANGED <<elements, next, result, pre, accepted, addCalls, consumeRun,
                   runFirst, drained, other, result2, paired, log, held>>

\* main: buf.consume(); then main returns
MainConsume ==
    /\ pc = "added"
    /\ LET o == consume(buf.elements, buf.next)
       IN  /\ buf' = [elements |-> o.elements, next |-> o.next]
           /\ pc' = IF o.res.kind = "panic" THEN "panicked" ELSE "done"
    /\ UNCHANGED <<elements, next, result, pre, accepted, addCalls, consumeRun,
                   runFirst, drained, other, result2, paired, log, held>>

NextHist ==
    \/ \E element \in HistArgs : HistAdd(element)
    \/ HistConsume
    \/ MainAdd
    \/ MainConsume

SpecHist == Init /\ [][NextHist]_vars

\* ---- properties ----------------------------------------------------------

\* C1: consume on a buffer with used() = k > 0 returns Some of exactly k
\* elements, equal in order to the elements accepted by add since the previous
\* consume (or since construction), and afterwards used() = 0.
C1_ConsumeReturnsAccepted ==
    (result.op = "consume" /\ used(pre.elements, pre.next) > 0) =>
        /\ result.kind = "Some"
        /\ Len(result.data) = used(pre.elements, pre.next)
        /\ result.data = pre.accepted
        /\ used(elements, next) = 0

\* A full buffer holding both values, filled over stale slots, was consumed.
C1_Witness ==
    /\ result.op = "consume"
    /\ result.kind = "Some"
    /\ pre.next = BUFFER_SIZE
    /\ result.data[1] # result.data[2]
    /\ drained /\ consumeRun = 1

\* C2: add(e) on a buffer with used() = capacity() returns BufferFullError
\* carrying e, and next and every slot keep their values.
C2_FullAddReturnsElement ==
    (result.op = "add"
        /\ used(pre.elements, pre.next) = capacity(pre.elements, pre.next)) =>
        /\ result.kind = "Err"
        /\ result.elem = pre.arg
        /\ next = pre.next
        /\ elements = pre.elements

\* A non-default element was rejected by a full buffer whose last slot
\* holds another value.
C2_Witness ==
    /\ result.op = "add"
    /\ pre.next = BUFFER_SIZE
    /\ result.kind = "Err"
    /\ pre.arg # Default
    /\ elements[BUFFER_SIZE - 1] # pre.arg

\* C3: from an empty buffer, k <= capacity() add calls with no consume in
\* between all succeed, and used() = k after the k-th.
C3_AddsUpToCapacitySucceed ==
    addCalls <= capacity(elements, next) =>
        /\ used(elements, next) = addCalls
        /\ result.op = "add" => result.kind = "Ok"

\* The capacity()-th add of a fill cycle has succeeded.
C3_Witness ==
    /\ result.op = "add"
    /\ addCalls = BUFFER_SIZE
    /\ result.kind = "Ok"
    /\ next = BUFFER_SIZE

\* C4: after any consume call, the next capacity() add calls all succeed and
\* the (capacity()+1)-th fails with BufferFull.
C4_ReusableAfterConsume ==
    (drained /\ result.op = "add") =>
        /\ addCalls <= capacity(elements, next) => result.kind = "Ok"
        /\ addCalls = capacity(elements, next) + 1 => result.kind = "Err"

\* After a consume, capacity() adds were accepted and one more was rejected.
C4_Witness ==
    /\ drained
    /\ result.op = "add"
    /\ addCalls = BUFFER_SIZE + 1
    /\ result.kind = "Err"
    /\ Len(accepted) = BUFFER_SIZE

\* C5: in every reachable state 0 <= used() <= capacity(), used() is the
\* cursor next, and capacity() is the fixed BUFFER_SIZE.
C5_UsedWithinCapacity ==
    /\ used(elements, next) \in 0..capacity(elements, next)
    /\ used(elements, next) = next
    /\ capacity(elements, next) = BUFFER_SIZE
    /\ result.op = "used" => result.val = next /\ result.val \in 0..BUFFER_SIZE
    /\ result.op = "capacity" => result.val = BUFFER_SIZE

\* used() was called on a partly filled buffer in a later fill cycle.
C5_Witness ==
    /\ result.op = "used"
    /\ drained
    /\ result.val = 1
    /\ next = 1

\* C6: consume on a buffer with used() = 0 returns None and changes neither
\* next nor any slot.
C6_EmptyConsumeReturnsNone ==
    (result.op = "consume" /\ used(pre.elements, pre.next) = 0) =>
        /\ result.kind = "None"
        /\ next = 0
        /\ elements = pre.elements

\* consume returned None on an empty buffer that has stale slots.
C6_Witness ==
    /\ result.op = "consume"
    /\ pre.next = 0
    /\ result.kind = "None"
    /\ elements # new.elements

\* C7: add fails with BufferFull exactly when used() = capacity() at the call
\* and succeeds otherwise; consume, used and capacity never fail, the index
\* of add and the slice of consume staying inside the backing store.
C7_OnlyFullAddFails ==
    /\ result.op = "add" =>
        /\ result.kind = "Err" <=>
               used(pre.elements, pre.next) = capacity(pre.elements, pre.next)
        /\ result.kind # "Err" => result.kind = "Ok"
    /\ result.kind # "panic"
    /\ \A element \in Vals : add(elements, next, element).res.kind # "panic"
    /\ consume(elements, next).res.kind # "panic"
    /\ next < BUFFER_SIZE => next \in DOMAIN elements
    /\ next <= BUFFER_SIZE

\* The last free slot was filled by a successful add.
C7_Witness ==
    /\ result.op = "add"
    /\ result.kind = "Ok"
    /\ pre.next = BUFFER_SIZE - 1
    /\ next = BUFFER_SIZE

\* C8: a successful add(e) raises used() by exactly 1 and stores e in the
\* slot at the old next; a failed add leaves used() as it was.
C8_AddStoresAtNext ==
    result.op = "add" =>
        /\ result.kind \in {"Ok", "Err"}
        /\ result.kind = "Ok" =>
               /\ used(elements, next) = used(pre.elements, pre.next) + 1
               /\ elements[pre.next] = pre.arg
        /\ result.kind = "Err" =>
               used(elements, next) = used(pre.elements, pre.next)

\* An add stored a new value in a slot past the first, over another value.
C8_Witness ==
    /\ result.op = "add"
    /\ result.kind = "Ok"
    /\ pre.next > 0
    /\ pre.elements[pre.next] # pre.arg
    /\ elements[0] # pre.arg

\* C9: of two consume calls with no add between them, the first returns the
\* stored data if used() > 0 and None otherwise, the second returns None and
\* leaves the buffer as the first left it.
C9_SecondConsumeReturnsNone ==
    result.op = "consume" =>
        /\ consumeRun = 1 =>
               /\ runFirst = result.kind
               /\ pre.next > 0 =>
                      result.kind = "Some" /\ result.data = pre.accepted
               /\ pre.next = 0 => result.kind = "None"
        /\ consumeRun = 2 =>
               /\ result.kind = "None"
               /\ next = pre.next
               /\ elements = pre.elements
               /\ pre.next = 0

\* A consume that followed a consume which had returned data.
C9_Witness ==
    /\ result.op = "consume"
    /\ consumeRun = 2
    /\ runFirst = "Some"
    /\ result.kind = "None"

\* C10: two buffers with the same next and the same slots [0, next) give the
\* same results for the same calls, whatever slots [next, BUFFER_SIZE) hold,
\* and remain such a pair; a consume result holds accepted elements only.
C10_StaleSlotsNeverObserved ==
    /\ paired =>
        /\ result = result2
        /\ LowEq(Buffer, other)
        /\ result2.kind = "Some" => result2.data = pre.accepted
    /\ LowEq(Buffer, other) =>
        /\ used(elements, next) = used(other.elements, other.next)
        /\ capacity(elements, next) = capacity(other.elements, other.next)

\* The same consume returned data from two buffers whose slots past next
\* differed at the call.
C10_Witness ==
    /\ paired
    /\ result.op = "consume"
    /\ result.kind = "Some"
    /\ pre.next < BUFFER_SIZE
    /\ \E i \in pre.next..(BUFFER_SIZE - 1) : elements[i] # other.elements[i]

\* C11: consume returns a sequence exactly when used() > 0 before the call,
\* and every sequence it returns has between 1 and capacity() elements.
C11_SomeIffNonEmpty ==
    result.op = "consume" =>
        /\ result.kind \in {"Some", "None"}
        /\ result.kind = "Some" <=> used(pre.elements, pre.next) > 0
        /\ result.kind = "Some" =>
               Len(result.data) \in 1..capacity(pre.elements, pre.next)
        /\ result.kind = "None" => result.data = <<>>

\* consume returned a single element from a buffer with stale slots behind it.
C11_Witness ==
    /\ result.op = "consume"
    /\ result.kind = "Some"
    /\ Len(result.data) = 1
    /\ pre.elements[1] # Default

\* C12: used() and capacity() leave next and every slot as they were, so a
\* following add or consume returns what it would have returned without them.
C12_ObserversArePure ==
    result.op \in {"used", "capacity"} =>
        /\ next = pre.next
        /\ elements = pre.elements
        /\ \A element \in Vals :
               add(elements, next, element)
                   = add(pre.elements, pre.next, element)
        /\ consume(elements, next) = consume(pre.elements, pre.next)

\* used() was called on a buffer that holds a non-default element.
C12_Witness ==
    /\ result.op = "used"
    /\ pre.next = BUFFER_SIZE
    /\ result.val = BUFFER_SIZE
    /\ pre.elements[0] # Default

\* C14: a successful consume resets next to 0 and leaves every slot with its
\* value; a slot changes only when a successful add stores into it.
C14_ConsumeKeepsSlots ==
    [][/\ (result'.op = "consume" /\ result'.kind = "Some") =>
              next' = 0 /\ elements' = pre'.elements
       /\ \A i \in 0..(BUFFER_SIZE - 1) :
              elements'[i] # elements[i] =>
                  /\ result'.op = "add"
                  /\ result'.kind = "Ok"
                  /\ i = next
                  /\ elements'[i] = pre'.arg]_vars

\* After a consume that returned data the slots still hold non-default values.
C14_Witness ==
    /\ result.op = "consume"
    /\ result.kind = "Some"
    /\ next = 0
    /\ \A i \in 0..(BUFFER_SIZE - 1) : elements[i] # Default

\* C16: a successful add writes the slot at the old next and no other slot.
C16_AddWritesOneSlot ==
    (result.op = "add" /\ result.kind = "Ok") =>
        /\ elements = [pre.elements EXCEPT ![pre.next] = pre.arg]
        /\ \A i \in 0..(BUFFER_SIZE - 1) :
               i # pre.next => elements[i] = pre.elements[i]

\* An add stored an element while an earlier, different element stayed in
\* slot 0 and a different stale value stayed in the last slot.
C16_Witness ==
    /\ result.op = "add"
    /\ result.kind = "Ok"
    /\ pre.next = 1
    /\ elements[0] # pre.arg
    /\ elements[BUFFER_SIZE - 1] # pre.arg
    /\ pre.elements[1] # pre.arg

\* C15: no state is terminal: add changes next when next < BUFFER_SIZE and
\* consume changes it when next > 0, and from every state the calls
\* add .. add, consume, add .. add lead to the full buffer, to the empty
\* buffer and to the full buffer again.
C15_NoTerminalState ==
    /\ next < BUFFER_SIZE \/ next > 0
    /\ next < BUFFER_SIZE =>
           \A element \in Vals : add(elements, next, element).next # next
    /\ next > 0 => consume(elements, next).next # next
    /\ \A element \in Vals :
           LET full == AddTimes(Buffer, BUFFER_SIZE - next, element)
               drain == consume(full.elements, full.next)
               again == AddTimes([elements |-> drain.elements,
                                  next |-> drain.next], BUFFER_SIZE, element)
           IN  /\ full.next = BUFFER_SIZE
               /\ drain.next = 0
               /\ again.next = BUFFER_SIZE

\* The full buffer has just rejected an add, in a fill cycle after a drain.
C15_Witness ==
    /\ next = BUFFER_SIZE
    /\ result.op = "add"
    /\ result.kind = "Err"
    /\ drained

\* C13: the elements of all consume results so far, followed by the slots
\* [0, next), are the elements accepted by add, in call order; an element
\* that add only ever rejected is in no consume result.
C13_Conservation ==
    /\ Returned(Len(log)) \o Slice(elements, next) = AcceptedAll(Len(log))
    /\ \A r \in Rejected \ Range(AcceptedAll(Len(log))) :
           r \notin Range(Returned(Len(log)))

\* Two drains have returned data, an element was rejected and never accepted,
\* and the buffer holds elements again.
C13_Witness ==
    /\ Len(ReturnedSeqs(Len(log))) >= 2
    /\ Rejected \ Range(AcceptedAll(Len(log))) # {}
    /\ next > 0

C18_RecoveryFromFull ==
    \A i \in 1..Len(log) :
        (/\ i + 2 <= Len(log)
         /\ log[i].res.op = "add" /\ log[i].res.kind = "Err"
         /\ log[i + 1].res.op = "consume"
         /\ log[i + 2].res.op = "add" /\ log[i + 2].arg = log[i].res.elem) =>
            /\ log[i + 2].res.kind = "Ok"
            /\ \A j \in (i + 3)..Len(log) :
                   (/\ log[j].res.op = "consume"
                    /\ \A k \in (i + 3)..(j - 1) : log[k].res.op # "consume") =>
                       /\ log[j].res.kind = "Some"
                       /\ log[j].res.data[1] = log[i].res.elem

\* A rejected element was added again after a consume, another element was
\* added after it, and a consume returned both.
C18_Witness ==
    \E i \in 1..Len(log) :
        /\ i + 4 <= Len(log)
        /\ log[i].res.kind = "Err"
        /\ log[i + 1].res.kind = "Some"
        /\ log[i + 2].res.kind = "Ok" /\ log[i + 2].arg = log[i].res.elem
        /\ log[i + 3].res.kind = "Ok"
        /\ log[i + 4].res.kind = "Some" /\ Len(log[i + 4].res.data) = 2

\* C19: main never takes the BufferFull path: its add on the new buffer
\* succeeds, unwrap does not panic, and the buffer is empty when main ends.
C19_MainNeverFull ==
    /\ pc # "panicked"
    /\ pc = "new" => buf = new
    /\ pc = "added" => used(buf.elements, buf.next) = 1 /\ buf.elements[0] = 1
    /\ pc = "done" => used(buf.elements, buf.next) = 0

\* main has ended, its element still in the uncleared slot 0.
C19_Witness ==
    /\ pc = "done"
    /\ buf.next = 0
    /\ buf.elements[0] = 1

====
